---- MODULE Spec2Model ----
\* A model of the VHDX reader: the container assembler Vhdx::new, the
\* current-header election and the log-sequence selector
\* Vhdx::try_get_log_sequence.
EXTENDS Integers, Sequences, FiniteSets, TLC

\* ---------------------------------------------------------------------
\* Bounds of the model
\* ---------------------------------------------------------------------
\* a log entry decoded on its own holds every mix of at most MaxDescs descriptors
MaxDescs == 3
\* the geometry functions are applied to arguments drawn from 1..MaxGeo
MaxGeo == 10
\* log entries handed to try_get_log_sequence carry sequence numbers 0..MaxSeq
MaxSeq == 3
\* try_get_log_sequence is given lists of at most MaxEntries entries
MaxEntries == 3
\* header sequence numbers are drawn from 1..MaxHdrSeq
MaxHdrSeq == 2
\* the log region of the file holds at most MaxScan chained "loge" entries
MaxScan == 2
\* a log region scanned to its end holds at most MaxLongScan chained entries
MaxLongScan == 4

\* ---------------------------------------------------------------------
\* Program constants
\* ---------------------------------------------------------------------
KB == 1024
MB == KB * KB
SECTOR_SIZE == 4096

\* GUID values: the nil GUID and two non-nil ones
NilGuid == 0
Guids == {1, 2}

VARIABLES
    \* ---- Vhdx::try_get_log_sequence ----
    spc,            \* position inside try_get_log_sequence
    log_arg,        \* the argument log_entries: &Vec<LogEntry>
    cur_guid,       \* log GUID of the current header (context of validate)
    active,
    candidate,
    read_items,
    slice_start,    \* start of the slice log_entries[read_items..] being iterated
    i,              \* enumerate() index inside the slice
    current_head_offset,
    seq_tail_offset,
    iters,          \* number of times the outer loop body was entered
    \* ---- Vhdx::new ----
    pc,             \* position inside Vhdx::new
    pos,            \* stream position of the reader
    steps,          \* the assembly steps started so far, in order
    fti,            \* MainHeader.fti
    header_1,       \* MainHeader.header_1
    header_2,       \* MainHeader.header_2
    region_table_1, \* MainHeader.region_table_1
    region_table_2, \* MainHeader.region_table_2
    header_no,      \* number of the elected header, 0 before the election
    log_end,
    log_entries,    \* the Vec the log scan pushes to
    peeked,         \* the signature the last peek found at pos ("none": not peeked)
    meta_data,
    bat_table,      \* the entries decoded into the BAT vector
    error,          \* the error Vhdx::new returned, "none" so far
    \* ---- the geometry functions of bat.rs, called on their own ----
    geo_pc,         \* "call" before the functions are applied, "done" after
    geo_in,         \* the arguments
    geo_out,        \* the values returned
    \* ---- MetaData::deserialize, called on its own ----
    md_pc,
    md_img,         \* the bytes of the metadata region
    md_res,         \* what the call produced
    \* ---- RegionTable::deserialize, called on its own ----
    rt_pc,
    rt_img,         \* the bytes of the region-table slot
    rt_res,         \* what the call produced
    \* ---- LogEntry::deserialize and LogEntry::valid, called on their own ----
    le_pc,
    le_img,         \* the bytes of the log entry, and the log GUID asked about
    le_res,         \* what the calls produced
    \* ---- check_sign_and_crc, called on a header image of its own ----
    hdr_pc,
    hdr_img,        \* the 4096 bytes of the header
    hdr_res,        \* what the call produced
    \* ---- BatEntry::deserialize, called on its own ----
    bat_pc,
    bat_img,        \* the 8-byte little-endian value
    bat_res         \* the entry decoded

selVars == <<spc, log_arg, cur_guid, active, candidate, read_items, slice_start,
             i, current_head_offset, seq_tail_offset, iters>>

openVars == <<pc, pos, steps, fti, header_1, header_2, region_table_1,
              region_table_2, header_no, log_end, log_entries, peeked, meta_data,
              bat_table, error>>

geoVars == <<geo_pc, geo_in, geo_out>>
mdVars == <<md_pc, md_img, md_res>>
rtVars == <<rt_pc, rt_img, rt_res>>
leVars == <<le_pc, le_img, le_res>>
hdrVars == <<hdr_pc, hdr_img, hdr_res>>
batVars == <<bat_pc, bat_img, bat_res>>
unitVars == <<geoVars, mdVars, rtVars, leVars, hdrVars, batVars>>

vars == <<selVars, openVars, unitVars>>

\* ---------------------------------------------------------------------
\* The fixed header section: file-type identifier, headers, region tables
\* ---------------------------------------------------------------------
FileTypeIdentifier_SIZE == 65536
Header_SIZE == 65536
RegionTable_RT_HEADER_SIZE == 65536
RegionTable_HEADER_SIZE == 16
RegionTable_ENTRY_SIZE == 32

\* Digest of a sequence of field values: the stand-in for the CRC-32C digest
\* that the crc32 methods feed field by field (a 16-bit checksum, so that a
\* change of any fed field changes the result within the values of the model).
RECURSIVE Digest(_, _)
Digest(fields, acc) ==
    IF fields = <<>> THEN acc
    ELSE Digest(Tail(fields), (acc * 31 + Head(fields) + 1) % 65521)

\* what a signature and a run of reserved bytes feed to the digest: the
\* signature "head" and a run of zero bytes feed 0
SignBytes(signature) == IF signature = "Head" THEN 0 ELSE 1
ZeroBytes == 0

\* Header::crc32: the digest of SIGN, a zero checksum, the parsed fields and
\* 4016 zero bytes; neither header.signature nor header.checksum is fed.
Header_crc32(h) ==
    Digest(<<SignBytes("Head"), ZeroBytes, h.seq_number, h.file_write_guid,
             h.data_write_guid, h.log_guid, h.log_version, h.version,
             h.log_length, h.log_offset, ZeroBytes>>, 0)

\* the parsed fields of a well-formed header
GoodHeaderFields(s, g, len) ==
    [signature |-> "Head", checksum |-> 0, seq_number |-> s, file_write_guid |-> 1,
     data_write_guid |-> 1, log_guid |-> g, log_version |-> 0, version |-> 1,
     log_length |-> len, log_offset |-> MB]

StampChecksum(h) == [h EXCEPT !.checksum = Header_crc32(h)]

\* The header images a file can hold: well-formed ones, and ones with a single
\* defect (signature, checksum, version, log version, log length, log offset).
HeaderSet ==
    LET good(s) == GoodHeaderFields(s, 1, MB) IN
    { StampChecksum(GoodHeaderFields(s, g, MB)) : s \in 1..MaxHdrSeq, g \in {NilGuid, 1} }
    \cup { StampChecksum(GoodHeaderFields(s, 1, 0)) : s \in 1..MaxHdrSeq }
    \cup { [StampChecksum(good(s)) EXCEPT !.signature = "Unknown"] : s \in 1..MaxHdrSeq }
    \cup { [good(s) EXCEPT !.checksum = (Header_crc32(good(s)) + 1) % 65521] : s \in 1..MaxHdrSeq }
    \cup { StampChecksum([good(MaxHdrSeq) EXCEPT !.version = 2]),
           StampChecksum([good(MaxHdrSeq) EXCEPT !.log_version = 1]),
           StampChecksum([good(MaxHdrSeq) EXCEPT !.log_length = MB + SECTOR_SIZE]),
           StampChecksum([good(MaxHdrSeq) EXCEPT !.log_offset = MB + SECTOR_SIZE]) }

NoHeader == [signature |-> "Unknown", checksum |-> 0, seq_number |-> 0, file_write_guid |-> 0,
             data_write_guid |-> 0, log_guid |-> NilGuid, log_version |-> 0, version |-> 0,
             log_length |-> 0, log_offset |-> 0]

\* Header::sequence_number
sequence_number(h) == h.seq_number

\* check_sign_and_crc
check_sign_and_crc(header) ==
    IF header.signature # "Head" THEN "SignatureError"
    ELSE IF header.checksum # Header_crc32(header) THEN "Crc32Error"
    ELSE "Ok"

\* get_current_header with the comparison of the sequence numbers reversed
get_current_header_lower(h1, h2) ==
    LET r1 == check_sign_and_crc(h1)
        r2 == check_sign_and_crc(h2)
    IN  IF r1 # "Ok" /\ r2 # "Ok" THEN [ok |-> FALSE, no |-> 0, err |-> "VhdxHeaderError"]
        ELSE IF r1 # "Ok" /\ r2 = "Ok" THEN [ok |-> TRUE, no |-> 2, err |-> "none"]
        ELSE IF r1 = "Ok" /\ r2 # "Ok" THEN [ok |-> TRUE, no |-> 1, err |-> "none"]
        ELSE IF sequence_number(h1) < sequence_number(h2)
        THEN [ok |-> TRUE, no |-> 1, err |-> "none"]
        ELSE [ok |-> TRUE, no |-> 2, err |-> "none"]

\* get_current_header without the branch for two invalid headers
get_current_header_no_reject(h1, h2) ==
    LET r1 == check_sign_and_crc(h1)
        r2 == check_sign_and_crc(h2)
    IN  IF r1 # "Ok" /\ r2 = "Ok" THEN [ok |-> TRUE, no |-> 2, err |-> "none"]
        ELSE IF r1 = "Ok" /\ r2 # "Ok" THEN [ok |-> TRUE, no |-> 1, err |-> "none"]
        ELSE IF sequence_number(h1) > sequence_number(h2)
        THEN [ok |-> TRUE, no |-> 1, err |-> "none"]
        ELSE [ok |-> TRUE, no |-> 2, err |-> "none"]

\* get_current_header: the number of the elected header, or the error
get_current_header(h1, h2) ==
    LET r1 == check_sign_and_crc(h1)
        r2 == check_sign_and_crc(h2)
    IN  IF r1 # "Ok" /\ r2 # "Ok" THEN [ok |-> FALSE, no |-> 0, err |-> "VhdxHeaderError"]
        ELSE IF r1 # "Ok" /\ r2 = "Ok" THEN [ok |-> TRUE, no |-> 2, err |-> "none"]
        ELSE IF r1 = "Ok" /\ r2 # "Ok" THEN [ok |-> TRUE, no |-> 1, err |-> "none"]
        ELSE IF sequence_number(h1) > sequence_number(h2)
        THEN [ok |-> TRUE, no |-> 1, err |-> "none"]
        ELSE [ok |-> TRUE, no |-> 2, err |-> "none"]

\* Header::validate (Validation trait): the checks of the header fields that
\* check_sign_and_crc does not make
Header_validate(h) ==
    IF h.version # 1 THEN "VersionError"
    ELSE IF h.log_version # 0 THEN "LogVersionError"
    ELSE IF h.log_length % MB # 0 THEN "LogLengthError"
    ELSE IF h.log_offset % MB # 0 THEN "LogOffsetError"
    ELSE "Ok"

\* The region-table images a file can hold: the parsed fixed part and the
\* GUID kind of each of its entries, in file order.
RTImage(sig, crcok, kinds) == [signature |-> sig, crc_ok |-> crcok, kinds |-> kinds]

RegionTableSet ==
    { RTImage("Regi", TRUE, k) :
        k \in { <<"Bat", "MetaData">>, <<"Bat">>, <<"MetaData">>, <<"Other">>, <<"Bat", "Other">> } }
    \cup { RTImage("Regi", FALSE, <<"Bat", "MetaData">>) }

\* file offsets of the regions the entries point to
RegionOffset(kind) == IF kind = "Bat" THEN 3 * MB ELSE 2 * MB

NoRegionTable == [signature |-> "Unknown", crc_ok |-> FALSE, entry_count |-> 0,
                  table_entries |-> {}]

\* the for loop of RegionTable::deserialize over the entries kinds[k..]:
\* table_entries is the HashMap (a set of <<known region, file offset>>),
\* offset the number of bytes left in the 64-KiB slot
RECURSIVE RTEntries(_, _, _, _)
RTEntries(kinds, k, table, offset) ==
    IF k > Len(kinds) THEN [ok |-> TRUE, table_entries |-> table, offset |-> offset]
    ELSE IF kinds[k] \notin {"Bat", "MetaData"}
    THEN [ok |-> FALSE, table_entries |-> table, offset |-> offset]
    ELSE RTEntries(kinds, k + 1,
                   { e \in table : e[1] # kinds[k] } \cup { <<kinds[k], RegionOffset(kinds[k])>> },
                   offset - RegionTable_ENTRY_SIZE)

\* RegionTable::deserialize without the seek over the rest of the slot
RegionTable_deserialize_no_seek(img, p) ==
    LET r == RTEntries(img.kinds, 1, {}, RegionTable_RT_HEADER_SIZE - RegionTable_HEADER_SIZE) IN
    IF ~r.ok THEN [ok |-> FALSE, err |-> "UnknownRTEntryFound", pos |-> p, table |-> NoRegionTable]
    ELSE [ok |-> TRUE, err |-> "none",
          pos |-> p + RegionTable_HEADER_SIZE + RegionTable_ENTRY_SIZE * Len(img.kinds),
          table |-> [signature |-> img.signature, crc_ok |-> img.crc_ok,
                     entry_count |-> Len(img.kinds), table_entries |-> r.table_entries]]

\* RegionTable::deserialize at stream position p
RegionTable_deserialize(img, p) ==
    LET r == RTEntries(img.kinds, 1, {}, RegionTable_RT_HEADER_SIZE - RegionTable_HEADER_SIZE) IN
    IF ~r.ok THEN [ok |-> FALSE, err |-> "UnknownRTEntryFound", pos |-> p, table |-> NoRegionTable]
    ELSE [ok |-> TRUE, err |-> "none",
          pos |-> p + RegionTable_HEADER_SIZE + RegionTable_ENTRY_SIZE * Len(img.kinds) + r.offset,
          table |-> [signature |-> img.signature, crc_ok |-> img.crc_ok,
                     entry_count |-> Len(img.kinds), table_entries |-> r.table_entries]]

\* RegionTable::validate (Validation trait)
RegionTable_validate(r) ==
    IF r.signature # "Regi" THEN "SignatureError"
    ELSE IF ~r.crc_ok THEN "Crc32Error"
    ELSE IF r.entry_count > 2047 THEN "RTEntryCountError"
    ELSE "Ok"

\* HashMap::get on table_entries
HasRegion(r, kind) == \E e \in r.table_entries : e[1] = kind
RegionFileOffset(r, kind) == (CHOOSE e \in r.table_entries : e[1] = kind)[2]

\* ---------------------------------------------------------------------
\* Log entries as the scanner parses them
\* ---------------------------------------------------------------------
LOG_HEADER_SIZE == 64
DESC_SIZE == 32

\* The entry images the log region can hold at the reader's position: the
\* 4 signature bytes and the signatures of the descriptors that follow the
\* 64-byte header ("readable" is FALSE when the file ends inside the entry).
ScanImageSet ==
    { [signature |-> sg, descs |-> d, readable |-> TRUE] :
        sg \in {"Loge", "Unknown"}, d \in { <<>>, <<"Desc">>, <<"Zero">>, <<"Unknown">> } }
    \cup { [signature |-> "Loge", descs |-> <<>>, readable |-> FALSE] }

DataCount(descs) == Cardinality({ k \in 1..Len(descs) : descs[k] = "Desc" })

\* LogEntry::deserialize at stream position p
LogEntry_deserialize(img, p) ==
    IF ~img.readable THEN [kind |-> "err", err |-> "IoError", pos |-> p]
    ELSE IF \E k \in 1..Len(img.descs) : img.descs[k] \notin {"Desc", "Zero"}
    THEN [kind |-> "panic", err |-> "none", pos |-> p]
    ELSE LET current_pos == p + LOG_HEADER_SIZE + DESC_SIZE * Len(img.descs)
             offset == SECTOR_SIZE - (current_pos - p)
         IN  IF \E k \in 1..Len(img.descs) : img.descs[k] = "Zero"
             THEN [kind |-> "panic", err |-> "none", pos |-> p]
             ELSE [kind |-> "ok", err |-> "none",
                   pos |-> current_pos + offset + SECTOR_SIZE * DataCount(img.descs)]

\* ---------------------------------------------------------------------
\* Metadata and BAT geometry
\* ---------------------------------------------------------------------
\* floor(x * 2^k / d) for d > 0, by one doubling per step, so that no
\* intermediate value leaves the range of the model's integers
RECURSIVE ShiftDiv(_, _, _, _)
ShiftDiv(q, r, k, d) ==
    IF k = 0 THEN q
    ELSE ShiftDiv(2 * q + (2 * r) \div d, (2 * r) % d, k - 1, d)

\* SectorSize::try_from: the sector size a stored value decodes to (0: Err)
SectorSize_try_from(v) ==
    IF v = 512 THEN 512
    ELSE IF v = 4096 THEN 512
    ELSE 0

\* calc_chunk_ratio with 2^22 in place of 2^23
calc_chunk_ratio_half(sector_size, block_size) ==
    ShiftDiv(sector_size \div block_size, sector_size % block_size, 22, block_size)

\* calc_chunk_ratio: (2^23 * sector_size) / block_size
calc_chunk_ratio(sector_size, block_size) ==
    ShiftDiv(sector_size \div block_size, sector_size % block_size, 23, block_size)

\* calc_payload_blocks_count with the quotient rounded down
calc_payload_blocks_count_floor(virtual_disk_size, block_size) ==
    virtual_disk_size \div block_size

\* calc_payload_blocks_count: (virtual_disk_size as f64 / block_size as f64).ceil().
\* Both casts and the rounded quotient are exact below 2^53, which holds
\* every value of the model; the ceiling of the exact quotient is computed
\* in integers.
calc_payload_blocks_count(virtual_disk_size, block_size) ==
    (virtual_disk_size + block_size - 1) \div block_size

\* calc_sector_bitmap_blocks_count: ceil(payload_blocks_count / chunk_ratio)
calc_sector_bitmap_blocks_count(payload_blocks_count, chunk_ratio) ==
    (payload_blocks_count + chunk_ratio - 1) \div chunk_ratio

\* calc_total_bat_entries_fixed_dynamic
calc_total_bat_entries_fixed_dynamic(payload_blocks_count, chunk_ratio) ==
    ((payload_blocks_count - 1) \div chunk_ratio) + payload_blocks_count

\* calc_total_bat_entries_differencing
calc_total_bat_entries_differencing(sector_bitmap_blocks_count, chunk_ratio) ==
    sector_bitmap_blocks_count * (chunk_ratio + 1)

KnownItems == <<"FileParameters", "VirtualDiskSize", "VirtualDiskID",
                "LogicalSectorSize", "PhysicalSectorSize">>

\* The metadata regions a file can hold: the item ids of the five table
\* entries the decoder reads, and the stored item values.
GoodMetaImage(vds, lss) ==
    [readable |-> TRUE, ids |-> KnownItems, block_size |-> MB, has_parent |-> FALSE,
     virtual_disk_size |-> vds, logical_sector_size |-> lss, physical_sector_size |-> 4096]

MetaImageSet ==
    { GoodMetaImage(vds, lss) : vds \in {MB, 3 * MB}, lss \in {512, 4096} }
    \cup { [GoodMetaImage(MB, 512) EXCEPT !.readable = FALSE],
           [GoodMetaImage(MB, 512) EXCEPT !.ids = [KnownItems EXCEPT ![2] = "Other"]],
           [GoodMetaImage(MB, 512) EXCEPT !.ids = [KnownItems EXCEPT ![2] = "FileParameters"]],
           [GoodMetaImage(MB, 512) EXCEPT !.logical_sector_size = 1024],
           [GoodMetaImage(MB, 512) EXCEPT !.block_size = 0],
           [GoodMetaImage(0, 512) EXCEPT !.has_parent = TRUE],
           \* a differencing disk of three blocks
           [GoodMetaImage(3 * MB, 512) EXCEPT !.has_parent = TRUE],
           \* a dynamic disk of 1 GiB in blocks of 32 MiB
           [GoodMetaImage(KB * MB, 512) EXCEPT !.block_size = 32 * MB] }

NoMetaData == [decoded |-> FALSE]

\* MetaData::deserialize up to the decoding of the five items: TRUE iff every
\* read succeeds and no unwrap, index or todo!() panics
MetaItemsDecode(img) ==
    /\ img.readable
    /\ \A k \in 1..5 : img.ids[k] \in { KnownItems[j] : j \in 1..5 }
    /\ \A j \in 1..5 : \E k \in 1..5 : img.ids[k] = KnownItems[j]
    /\ SectorSize_try_from(img.logical_sector_size) # 0
    /\ SectorSize_try_from(img.physical_sector_size) # 0

\* ---------------------------------------------------------------------
\* Log entries as seen by the selector
\* ---------------------------------------------------------------------
\* The fields of a parsed entry that validation and selection look at.
\* crc_ok: the recomputed CRC-32C equals header.checksum;
\* desc_ok: every descriptor and data sector carries header.seq_number.
LogEntrySet ==
    LET good(s) == [seq_number |-> s, signature |-> "Loge", log_guid |-> 1,
                    crc_ok |-> TRUE, desc_ok |-> TRUE, entry_length |-> SECTOR_SIZE]
    IN  UNION { { good(s),
                  [good(s) EXCEPT !.signature = "Unknown"],
                  [good(s) EXCEPT !.log_guid = 2],
                  [good(s) EXCEPT !.crc_ok = FALSE],
                  [good(s) EXCEPT !.desc_ok = FALSE] } : s \in 0..MaxSeq }

RECURSIVE SeqsUpTo(_, _)
SeqsUpTo(S, n) ==
    IF n = 0 THEN { <<>> }
    ELSE LET shorter == SeqsUpTo(S, n - 1)
         IN  shorter \cup { Append(q, x) : q \in { r \in shorter : Len(r) = n - 1 }, x \in S }

\* LogEntry::validate (Validation trait): Ok iff the entry is valid for the
\* current header's log GUID.
validate(entry, guid) ==
    /\ entry.signature = "Loge"
    /\ entry.log_guid = guid
    /\ entry.crc_ok
    /\ entry.desc_ok

EmptySequence ==
    [sequence_number |-> 0, entries |-> <<>>, head_value |-> 0, tail_value |-> 0]

\* LogSequence::is_empty
is_empty(s) == s.entries = <<>>

\* LogSequence::is_valid: a sequence is valid iff it holds at least one entry
is_valid(s) == Len(s.entries) >= 1

\* ---------------------------------------------------------------------
\* Vhdx::new, one action per step
\* ---------------------------------------------------------------------
\* values of the variables of Vhdx::new while try_get_log_sequence is studied
OpenIdle ==
    /\ pc = "idle"
    /\ pos = 0
    /\ steps = <<>>
    /\ fti = "none"
    /\ header_1 = NoHeader
    /\ header_2 = NoHeader
    /\ region_table_1 = NoRegionTable
    /\ region_table_2 = NoRegionTable
    /\ header_no = 0
    /\ log_end = 0
    /\ log_entries = <<>>
    /\ peeked = "none"
    /\ meta_data = NoMetaData
    /\ bat_table = <<>>
    /\ error = "none"

\* values of the variables of try_get_log_sequence while Vhdx::new is studied
SelIdle ==
    /\ spc = "idle"
    /\ log_arg = <<>>
    /\ cur_guid = NilGuid
    /\ active = EmptySequence
    /\ candidate = EmptySequence
    /\ read_items = 0
    /\ slice_start = 0
    /\ i = 0
    /\ current_head_offset = 0
    /\ seq_tail_offset = 0
    /\ iters = 0

\* values of the variables of the single-function calls while a whole
\* operation is studied
GeoIdle == geo_pc = "idle" /\ geo_in = <<>> /\ geo_out = <<>>
MdIdle == md_pc = "idle" /\ md_img = <<>> /\ md_res = <<>>
RtIdle == rt_pc = "idle" /\ rt_img = <<>> /\ rt_res = <<>>
LeIdle == le_pc = "idle" /\ le_img = <<>> /\ le_res = <<>>
HdrIdle == hdr_pc = "idle" /\ hdr_img = <<>> /\ hdr_res = <<>>
BatIdle == bat_pc = "idle" /\ bat_img = <<>> /\ bat_res = <<>>
UnitIdle == GeoIdle /\ MdIdle /\ RtIdle /\ LeIdle /\ HdrIdle /\ BatIdle

Init ==
    /\ pc = "open"
    /\ pos = 0
    /\ steps = <<>>
    /\ fti = "none"
    /\ header_1 = NoHeader
    /\ header_2 = NoHeader
    /\ region_table_1 = NoRegionTable
    /\ region_table_2 = NoRegionTable
    /\ header_no = 0
    /\ log_end = 0
    /\ log_entries = <<>>
    /\ peeked = "none"
    /\ meta_data = NoMetaData
    /\ bat_table = <<>>
    /\ error = "none"
    /\ SelIdle
    /\ UnitIdle

\* return Err(e)
Fail(e) == pc' = "err" /\ error' = e
\* the thread panics
Panic == pc' = "panic" /\ error' = error

\* the elected header
CurrentHeader == IF header_no = 1 THEN header_1 ELSE header_2

\* File::options().read(true).write(true).open(path)?
OpenFile ==
    /\ pc = "open"
    /\ \/ pc' = "fti" /\ error' = error
       \/ Fail("IoError")
    /\ UNCHANGED <<pos, steps, fti, header_1, header_2, region_table_1, region_table_2,
                   header_no, log_end, log_entries, peeked, meta_data, bat_table>>
    /\ UNCHANGED <<selVars, unitVars>>

\* FileTypeIdentifier::deserialize: the slot is read in one piece; the
\* signature is decoded and not compared with anything; the creator field
\* is decoded with String::from_utf16(..).unwrap()
ReadFti ==
    /\ pc = "fti"
    /\ steps' = Append(steps, "fti")
    /\ \E readable \in BOOLEAN, sig \in {"Vhdxfile", "Unknown"}, creator_is_utf16 \in BOOLEAN :
         IF ~readable
         THEN Fail("IoError") /\ UNCHANGED <<pos, fti>>
         ELSE IF ~creator_is_utf16
         THEN Panic /\ UNCHANGED <<pos, fti>>
         ELSE /\ fti' = sig
              /\ pos' = pos + FileTypeIdentifier_SIZE
              /\ pc' = "h1"
              /\ error' = error
    /\ UNCHANGED <<header_1, header_2, region_table_1, region_table_2,
                   header_no, log_end, log_entries, peeked, meta_data, bat_table>>
    /\ UNCHANGED <<selVars, unitVars>>

\* Header::deserialize of header 1
ReadHeader1 ==
    /\ pc = "h1"
    /\ steps' = Append(steps, "h1")
    /\ \/ Fail("IoError") /\ UNCHANGED <<pos, header_1>>
       \/ \E h \in HeaderSet :
            /\ header_1' = h
            /\ pos' = pos + Header_SIZE
            /\ pc' = "h2"
            /\ error' = error
    /\ UNCHANGED <<fti, header_2, region_table_1, region_table_2,
                   header_no, log_end, log_entries, peeked, meta_data, bat_table>>
    /\ UNCHANGED <<selVars, unitVars>>

\* Header::deserialize of header 2
ReadHeader2 ==
    /\ pc = "h2"
    /\ steps' = Append(steps, "h2")
    /\ \/ Fail("IoError") /\ UNCHANGED <<pos, header_2>>
       \/ \E h \in HeaderSet :
            /\ header_2' = h
            /\ pos' = pos + Header_SIZE
            /\ pc' = "rt1"
            /\ error' = error
    /\ UNCHANGED <<fti, header_1, region_table_1, region_table_2,
                   header_no, log_end, log_entries, peeked, meta_data, bat_table>>
    /\ UNCHANGED <<selVars, unitVars>>

\* RegionTable::deserialize of region table 1
ReadRegionTable1 ==
    /\ pc = "rt1"
    /\ steps' = Append(steps, "rt1")
    /\ \/ Fail("IoError") /\ UNCHANGED <<pos, region_table_1>>
       \/ \E img \in RegionTableSet :
            LET r == RegionTable_deserialize(img, pos) IN
            IF ~r.ok
            THEN Fail(r.err) /\ UNCHANGED <<pos, region_table_1>>
            ELSE /\ region_table_1' = r.table
                 /\ pos' = r.pos
                 /\ pc' = "rt2"
                 /\ error' = error
    /\ UNCHANGED <<fti, header_1, header_2, region_table_2,
                   header_no, log_end, log_entries, peeked, meta_data, bat_table>>
    /\ UNCHANGED <<selVars, unitVars>>

\* RegionTable::deserialize of region table 2
ReadRegionTable2 ==
    /\ pc = "rt2"
    /\ steps' = Append(steps, "rt2")
    /\ \/ Fail("IoError") /\ UNCHANGED <<pos, region_table_2>>
       \/ \E img \in RegionTableSet :
            LET r == RegionTable_deserialize(img, pos) IN
            IF ~r.ok
            THEN Fail(r.err) /\ UNCHANGED <<pos, region_table_2>>
            ELSE /\ region_table_2' = r.table
                 /\ pos' = r.pos
                 /\ pc' = "elect"
                 /\ error' = error
    /\ UNCHANGED <<fti, header_1, header_2, region_table_1,
                   header_no, log_end, log_entries, peeked, meta_data, bat_table>>
    /\ UNCHANGED <<selVars, unitVars>>

\* let (header_no, h) = get_current_header(&header.header_1, &header.header_2)?
Elect ==
    /\ pc = "elect"
    /\ steps' = Append(steps, "elect")
    /\ LET r == get_current_header(header_1, header_2) IN
         IF ~r.ok
         THEN Fail(r.err) /\ UNCHANGED header_no
         ELSE /\ header_no' = r.no
              /\ pc' = "validate"
              /\ error' = error
    /\ UNCHANGED <<pos, fti, header_1, header_2, region_table_1, region_table_2,
                   log_end, log_entries, peeked, meta_data, bat_table>>
    /\ UNCHANGED <<selVars, unitVars>>

\* h.validate()?
ValidateHeader ==
    /\ pc = "validate"
    /\ steps' = Append(steps, "validate")
    /\ LET r == Header_validate(CurrentHeader) IN
         IF r # "Ok"
         THEN Fail(r)
         ELSE pc' = "log" /\ error' = error
    /\ UNCHANGED <<pos, fti, header_1, header_2, region_table_1, region_table_2,
                   header_no, log_end, log_entries, peeked, meta_data, bat_table>>
    /\ UNCHANGED <<selVars, unitVars>>

\* SeekLog when the log scan is left out of the assembly
SeekLog_skipped ==
    /\ pc = "log"
    /\ pc' = "regions"
    /\ UNCHANGED <<pos, steps, fti, header_1, header_2, region_table_1, region_table_2,
                   header_no, log_end, log_entries, peeked, meta_data, bat_table, error>>
    /\ UNCHANGED <<selVars, unitVars>>

\* the seek to h.log_offset and the computation of log_end
SeekLog ==
    /\ pc = "log"
    /\ steps' = Append(steps, "log")
    /\ pos' = CurrentHeader.log_offset
    /\ log_end' = CurrentHeader.log_offset + CurrentHeader.log_length
    /\ pc' = "scan"
    /\ UNCHANGED <<fti, header_1, header_2, region_table_1, region_table_2,
                   header_no, log_entries, peeked, meta_data, bat_table, error>>
    /\ UNCHANGED <<selVars, unitVars>>

\* one turn of the while loop: an entry is parsed at pos and pushed, then 4
\* bytes are read and matched against "loge"; the log region holds entry
\* images of the set images, at most bound of them chained
ScanEntryOf(images, bound) ==
    /\ pc = "scan"
    /\ pos # log_end
    /\ \E img \in images :
         /\ peeked = "Loge" => img.signature = "Loge"
         /\ LET r == LogEntry_deserialize(img, pos) IN
              CASE r.kind = "err" ->
                     Fail(r.err) /\ UNCHANGED <<pos, log_entries, peeked>>
                [] r.kind = "panic" ->
                     Panic /\ UNCHANGED <<pos, log_entries, peeked>>
                [] OTHER ->
                     /\ log_entries' = Append(log_entries,
                                              [signature |-> img.signature, descriptors |-> img.descs])
                     /\ \/ \* read_exact of the 4 bytes fails
                           Fail("IoError") /\ pos' = r.pos /\ peeked' = "none"
                        \/ \* Signature::Loge: back up and let the loop run again
                           /\ Len(log_entries) + 1 < bound
                           /\ pos' = r.pos
                           /\ peeked' = "Loge"
                           /\ pc' = pc
                           /\ error' = error
                        \/ \* any other signature: break
                           /\ pos' = r.pos + 4
                           /\ peeked' = "Unknown"
                           /\ pc' = "regions"
                           /\ error' = error
    /\ UNCHANGED <<steps, fti, header_1, header_2, region_table_1, region_table_2,
                   header_no, log_end, meta_data, bat_table>>
    /\ UNCHANGED <<selVars, unitVars>>

ScanEntry == ScanEntryOf(ScanImageSet, MaxScan)

\* the while condition fails: the reader is at log_end
ScanEnd ==
    /\ pc = "scan"
    /\ pos = log_end
    /\ pc' = "regions"
    /\ UNCHANGED <<pos, steps, fti, header_1, header_2, region_table_1, region_table_2,
                   header_no, log_end, log_entries, peeked, meta_data, bat_table, error>>
    /\ UNCHANGED <<selVars, unitVars>>

\* the match on header_no with the two copies exchanged
UsedRegionTable_other == IF header_no = 1 THEN region_table_2 ELSE region_table_1

\* the region table used: the copy with the number of the elected header
UsedRegionTable == IF header_no = 1 THEN region_table_1 ELSE region_table_2

\* r.validate()?, the two lookups, and the seek to the metadata region
SelectRegions ==
    /\ pc = "regions"
    /\ steps' = Append(steps, "regions")
    /\ LET r == UsedRegionTable IN
         IF RegionTable_validate(r) # "Ok"
         THEN Fail(RegionTable_validate(r)) /\ UNCHANGED pos
         ELSE IF ~HasRegion(r, "MetaData")
         THEN Fail("MissingKnownRegion(MetaData)") /\ UNCHANGED pos
         ELSE IF ~HasRegion(r, "Bat")
         THEN Fail("MissingKnownRegion(Bat)") /\ UNCHANGED pos
         ELSE /\ pos' = RegionFileOffset(r, "MetaData")
              /\ pc' = "meta"
              /\ error' = error
    /\ UNCHANGED <<fti, header_1, header_2, region_table_1, region_table_2,
                   header_no, log_end, log_entries, peeked, meta_data, bat_table>>
    /\ UNCHANGED <<selVars, unitVars>>

\* MetaData::deserialize(&mut reader).unwrap(), up to the decoding of the items
ReadMetaData ==
    /\ pc = "meta"
    /\ steps' = Append(steps, "meta")
    /\ \E img \in MetaImageSet :
         IF ~MetaItemsDecode(img)
         THEN Panic /\ UNCHANGED meta_data
         ELSE /\ meta_data' =
                   [decoded |-> TRUE,
                    block_size |-> img.block_size,
                    has_parent |-> img.has_parent,
                    virtual_disk_size |-> img.virtual_disk_size,
                    logical_sector_size |-> SectorSize_try_from(img.logical_sector_size),
                    physical_sector_size |-> SectorSize_try_from(img.physical_sector_size),
                    computed |-> FALSE]
              /\ pc' = "geom"
              /\ error' = error
    /\ UNCHANGED <<pos, fti, header_1, header_2, region_table_1, region_table_2,
                   header_no, log_end, log_entries, peeked, bat_table>>
    /\ UNCHANGED <<selVars, unitVars>>

\* the geometry computation that ends MetaData::deserialize
ComputeGeometry ==
    /\ pc = "geom"
    /\ steps' = Append(steps, "geom")
    /\ IF meta_data.block_size = 0
       THEN \* calc_chunk_ratio divides by zero
            Panic /\ UNCHANGED meta_data
       ELSE LET chunk_ratio == calc_chunk_ratio(meta_data.logical_sector_size,
                                                meta_data.block_size)
                payload_blocks_count == calc_payload_blocks_count(meta_data.virtual_disk_size,
                                                                  meta_data.block_size)
                sector_bitmaps_blocks_count ==
                    calc_sector_bitmap_blocks_count(payload_blocks_count, chunk_ratio)
            IN  IF payload_blocks_count = 0
                THEN \* payload_blocks_count - 1 leaves u64: a panic with overflow checks;
                     \* without them the wrapped count exceeds every file and the
                     \* BAT decode panics on its unwrap
                     Panic /\ UNCHANGED meta_data
                ELSE /\ meta_data' =
                          [decoded |-> TRUE,
                           block_size |-> meta_data.block_size,
                           has_parent |-> meta_data.has_parent,
                           virtual_disk_size |-> meta_data.virtual_disk_size,
                           logical_sector_size |-> meta_data.logical_sector_size,
                           physical_sector_size |-> meta_data.physical_sector_size,
                           computed |-> TRUE,
                           chunk_ratio |-> chunk_ratio,
                           payload_blocks_count |-> payload_blocks_count,
                           sector_bitmaps_blocks_count |-> sector_bitmaps_blocks_count,
                           total_bat_entries_fixed_dynamic |->
                               calc_total_bat_entries_fixed_dynamic(payload_blocks_count,
                                                                    chunk_ratio),
                           total_bat_entries_differencing |->
                               calc_total_bat_entries_differencing(sector_bitmaps_blocks_count,
                                                                   chunk_ratio)]
                     /\ pc' = "bat"
                     /\ error' = error
    /\ UNCHANGED <<pos, fti, header_1, header_2, region_table_1, region_table_2,
                   header_no, log_end, log_entries, peeked, bat_table>>
    /\ UNCHANGED <<selVars, unitVars>>

\* the state of one decoded BAT entry (the entries the file holds are NotPresent)
BatEntryOfFile == [state |-> "NotPresent", file_offset_mb |-> 0]

\* the seek to the BAT region and the decoding of the BAT vector
ReadBat ==
    /\ pc = "bat"
    /\ steps' = Append(steps, "bat")
    /\ \/ \* the file ends before the last entry: BatEntry::deserialize(..).unwrap()
          Panic /\ UNCHANGED <<pos, bat_table>>
       \/ /\ bat_table' = [k \in 1..meta_data.total_bat_entries_fixed_dynamic |-> BatEntryOfFile]
          /\ pos' = RegionFileOffset(UsedRegionTable, "Bat")
                    + 8 * meta_data.total_bat_entries_fixed_dynamic
          /\ pc' = "ok"
          /\ error' = error
    /\ UNCHANGED <<fti, header_1, header_2, region_table_1, region_table_2,
                   header_no, log_end, log_entries, peeked, meta_data>>
    /\ UNCHANGED <<selVars, unitVars>>

Next ==
    \/ OpenFile
    \/ ReadFti
    \/ ReadHeader1
    \/ ReadHeader2
    \/ ReadRegionTable1
    \/ ReadRegionTable2
    \/ Elect
    \/ ValidateHeader
    \/ SeekLog
    \/ ScanEntry
    \/ ScanEnd
    \/ SelectRegions
    \/ ReadMetaData
    \/ ComputeGeometry
    \/ ReadBat

Spec == Init /\ [][Next]_vars

\* ---------------------------------------------------------------------
\* Vhdx::try_get_log_sequence, one action per step of its two loops
\* ---------------------------------------------------------------------
SelInit ==
    /\ log_arg \in SeqsUpTo(LogEntrySet, MaxEntries)
    /\ cur_guid = 1
    /\ spc = "loop"
    /\ active = EmptySequence
    /\ candidate = EmptySequence
    /\ read_items = 0
    /\ slice_start = 0
    /\ i = 0
    /\ current_head_offset = 0
    /\ seq_tail_offset = 0
    /\ iters = 0
    /\ OpenIdle
    /\ UnitIdle

\* top of `loop`: a fresh candidate, and the slice log_entries[read_items..]
SelLoopHead ==
    /\ spc = "loop"
    /\ candidate' = [EmptySequence EXCEPT !.tail_value = seq_tail_offset]
    /\ slice_start' = read_items
    /\ i' = 0
    /\ iters' = iters + 1
    /\ spc' = "for"
    /\ UNCHANGED <<log_arg, cur_guid, active, read_items, current_head_offset,
                   seq_tail_offset>>
    /\ UNCHANGED <<openVars, unitVars>>

\* the candidate after a valid entry was looked at
PushEntry(c, entry, head) ==
    IF is_empty(c)
    THEN [c EXCEPT !.sequence_number = entry.seq_number,
                   !.entries = Append(c.entries, entry),
                   !.head_value = head]
    ELSE IF entry.seq_number = c.sequence_number + 1
    THEN [c EXCEPT !.entries = Append(c.entries, entry),
                   !.head_value = head]
    ELSE c

\* one iteration of the for loop on an entry that fails validation
SelForInvalid ==
    /\ spc = "for"
    /\ slice_start + i < Len(log_arg)
    /\ ~validate(log_arg[slice_start + i + 1], cur_guid)
    /\ read_items' = i
    /\ spc' = "step4"
    /\ UNCHANGED <<log_arg, cur_guid, active, candidate, slice_start, i,
                   current_head_offset, seq_tail_offset, iters>>
    /\ UNCHANGED <<openVars, unitVars>>

\* one iteration of the for loop on an entry that passes validation
SelForValid ==
    /\ spc = "for"
    /\ slice_start + i < Len(log_arg)
    /\ LET entry == log_arg[slice_start + i + 1] IN
         /\ validate(entry, cur_guid)
         /\ candidate' = PushEntry(candidate, entry, current_head_offset)
         /\ seq_tail_offset' = seq_tail_offset + entry.entry_length
         /\ current_head_offset' = current_head_offset + entry.entry_length
    /\ read_items' = read_items + 1
    /\ i' = i + 1
    /\ UNCHANGED <<spc, log_arg, cur_guid, active, slice_start, iters>>
    /\ UNCHANGED <<openVars, unitVars>>

\* the slice is exhausted
SelForEnd ==
    /\ spc = "for"
    /\ slice_start + i = Len(log_arg)
    /\ spc' = "step4"
    /\ UNCHANGED <<log_arg, cur_guid, active, candidate, read_items, slice_start,
                   i, current_head_offset, seq_tail_offset, iters>>
    /\ UNCHANGED <<openVars, unitVars>>

\* Step 5 and the loop exit test without the break of Step 4
SelStep45_no_break ==
    /\ spc = "step4"
    /\ active' = IF candidate.sequence_number > active.sequence_number
                  THEN candidate ELSE active
    /\ spc' = IF read_items = Len(log_arg) THEN "done" ELSE "loop"
    /\ UNCHANGED <<log_arg, cur_guid, candidate, read_items, slice_start, i,
                   current_head_offset, seq_tail_offset, iters>>
    /\ UNCHANGED <<openVars, unitVars>>

\* Step 4 and Step 5 and the loop exit test
SelStep45 ==
    /\ spc = "step4"
    /\ IF ~is_valid(candidate)
       THEN /\ spc' = "done"
            /\ UNCHANGED active
       ELSE /\ active' = IF candidate.sequence_number > active.sequence_number
                         THEN candidate ELSE active
            /\ spc' = IF read_items = Len(log_arg) THEN "done" ELSE "loop"
    /\ UNCHANGED <<log_arg, cur_guid, candidate, read_items, slice_start, i,
                   current_head_offset, seq_tail_offset, iters>>
    /\ UNCHANGED <<openVars, unitVars>>

SelNext ==
    \/ SelLoopHead
    \/ SelForInvalid
    \/ SelForValid
    \/ SelForEnd
    \/ SelStep45

SpecSel == SelInit /\ [][SelNext]_vars

\* ---------------------------------------------------------------------
\* Properties of the log-sequence selector (checked under SpecSel)
\* ---------------------------------------------------------------------

\* C1: the active sequence returned by try_get_log_sequence is empty, or its
\* k-th entry (counting from 0) has sequence number anchor + k, and every entry
\* of it is valid for the current log GUID.
C1_ActiveConsecutive ==
    spc = "done" =>
        \A k \in 1..Len(active.entries) :
            /\ active.entries[k].seq_number = active.sequence_number + (k - 1)
            /\ validate(active.entries[k], cur_guid)

\* the entries L[k..] appended after an entry numbered prev: as long as each is
\* valid and numbered one more than the entry appended before it
RECURSIVE RunAfter(_, _, _, _)
RunAfter(L, k, prev, guid) ==
    IF k > Len(L) THEN <<>>
    ELSE IF validate(L[k], guid) /\ L[k].seq_number = prev + 1
    THEN <<L[k]>> \o RunAfter(L, k + 1, L[k].seq_number, guid)
    ELSE <<>>

\* the maximal contiguous run that starts at the (0-based) index c of L
MaxRun(L, c, guid) ==
    IF c >= Len(L) \/ ~validate(L[c + 1], guid) THEN <<>>
    ELSE <<L[c + 1]>> \o RunAfter(L, c + 2, L[c + 1].seq_number, guid)

\* C2: when the for loop has ended, the candidate that started at L[c] consists
\* of exactly the maximal contiguous run of valid, consecutively numbered
\* entries starting at L[c].
C2_CandidateIsMaximalRun ==
    spc = "step4" => candidate.entries = MaxRun(log_arg, slice_start, cur_guid)

\* the anchors of the candidates of section 4.12: a candidate is the maximal
\* run at the cursor, the next one starts where the previous one stopped, and
\* the enumeration ends at the first empty candidate
RECURSIVE CandidateAnchors(_, _, _)
CandidateAnchors(L, cursor, guid) ==
    IF cursor >= Len(L) THEN {}
    ELSE LET run == MaxRun(L, cursor, guid) IN
         IF run = <<>> THEN {}
         ELSE {run[1].seq_number} \cup CandidateAnchors(L, cursor + Len(run), guid)

\* C3: the returned active sequence has the highest anchor among the
\* candidates of section 4.12: no non-empty candidate starts with a sequence
\* number strictly greater than the returned one.
C3_ActiveHasHighestAnchor ==
    spc = "done" =>
        \A a \in CandidateAnchors(log_arg, 0, cur_guid) : a <= active.sequence_number

\* ---------------------------------------------------------------------
\* Properties of the header election and of the assembly (checked under Spec)
\* ---------------------------------------------------------------------
\* the election step of Vhdx::new has been executed
Elected == \E k \in 1..Len(steps) : steps[k] = "elect"

\* a header is valid: signature "head" and a stored checksum equal to the
\* recomputed one
ValidHeader(h) == h.signature = "Head" /\ h.checksum = Header_crc32(h)

HeaderNo(n) == IF n = 1 THEN header_1 ELSE header_2

\* C4: whenever the election succeeds the elected header is valid; if exactly
\* one header is valid that one is elected; if both are valid with different
\* sequence numbers the one with the strictly greater number is elected.
C4_ElectionPicksValidGreatest ==
    Elected =>
        /\ header_no # 0 => ValidHeader(HeaderNo(header_no))
        /\ \A n \in {1, 2} :
             (ValidHeader(HeaderNo(n)) /\ ~ValidHeader(HeaderNo(3 - n))) => header_no = n
        /\ \A n \in {1, 2} :
             (/\ ValidHeader(header_1)
              /\ ValidHeader(header_2)
              /\ HeaderNo(n).seq_number > HeaderNo(3 - n).seq_number) => header_no = n

\* both headers valid, header 2 with the greater sequence number, header 2 elected
C4_Witness ==
    /\ pc = "validate"
    /\ ValidHeader(header_1)
    /\ ValidHeader(header_2)
    /\ header_2.seq_number > header_1.seq_number
    /\ header_no = 2

\* C5: when both headers are valid and their sequence numbers are equal, the
\* election returns header 1.
C5_TieElectsHeader1 ==
    (/\ Elected
     /\ ValidHeader(header_1)
     /\ ValidHeader(header_2)
     /\ header_1.seq_number = header_2.seq_number) => header_no = 1

\* C6: when both headers fail validation the open fails with the
\* no-valid-header error, and no log scan, metadata decode or BAT decode is
\* performed.
C6_NoValidHeaderStopsOpen ==
    (Elected /\ ~ValidHeader(header_1) /\ ~ValidHeader(header_2)) =>
        /\ pc = "err"
        /\ error = "VhdxHeaderError"
        /\ \A k \in 1..Len(steps) : steps[k] \notin {"log", "meta", "geom", "bat"}
        /\ log_entries = <<>>
        /\ meta_data = NoMetaData
        /\ bat_table = <<>>

\* the open has failed at the election with both headers invalid
C6_Witness ==
    /\ pc = "err"
    /\ error = "VhdxHeaderError"
    /\ ~ValidHeader(header_1)
    /\ ~ValidHeader(header_2)
    /\ header_1.signature = "Head"
    /\ header_2.signature = "Head"

\* a header passes every per-header check: signature, CRC, version = 1,
\* log version = 0, log length and log offset multiples of 1 MiB
PassesAllChecks(h) ==
    /\ ValidHeader(h)
    /\ h.version = 1
    /\ h.log_version = 0
    /\ h.log_length % MB = 0
    /\ h.log_offset % MB = 0

HeaderErrors == {"VhdxHeaderError", "SignatureError", "Crc32Error", "VersionError",
                 "LogVersionError", "LogLengthError", "LogOffsetError"}

\* C7: if one header fails any per-header check and the other passes all of
\* them, the open does not fail on header grounds and the passing header is
\* the current header.
C7_FailingHeaderOnlyLosesElection ==
    \A n \in {1, 2} :
        (Elected /\ PassesAllChecks(HeaderNo(n)) /\ ~PassesAllChecks(HeaderNo(3 - n))) =>
            /\ header_no = n
            /\ error \notin HeaderErrors

\* C8: if the log GUID of the elected header is nil, the log region is not
\* scanned and no log entry is parsed.
C8_NilLogGuidSkipsScan ==
    (header_no # 0 /\ HeaderNo(header_no).log_guid = NilGuid) => log_entries = <<>>

\* C9: every entry the log scanner returns has signature "loge" (a log region
\* that begins with other bytes yields an empty list).
C9_ScannedEntriesAreLoge ==
    \A k \in 1..Len(log_entries) : log_entries[k].signature = "Loge"

\* the ten assembly steps in their order
AssemblyOrder == <<"fti", "h1", "h2", "rt1", "rt2", "elect", "log", "meta", "geom", "bat">>

IsAssemblyStep(x) == \E k \in 1..Len(AssemblyOrder) : AssemblyOrder[k] = x

C11_FailureIsTypedError ==
    /\ pc # "panic"
    /\ pc = "err" => error # "none"

\* ---------------------------------------------------------------------
\* C12: the number of BAT entries the open decodes is
\* total_bat_entries_differencing when has_parent is true and
\* total_bat_entries_fixed_dynamic when it is false.
\* ---------------------------------------------------------------------
C12_BatLengthFollowsHasParent ==
    pc = "ok" =>
        Len(bat_table) = IF meta_data.has_parent
                         THEN meta_data.total_bat_entries_differencing
                         ELSE meta_data.total_bat_entries_fixed_dynamic

\* ---------------------------------------------------------------------
\* The geometry functions of bat.rs applied to arguments of their own
\* ---------------------------------------------------------------------
GeoInit ==
    /\ geo_pc = "call"
    /\ geo_in \in [virtual_disk_size : 1..MaxGeo, block_size : 1..MaxGeo,
                   chunk_ratio : 1..MaxGeo]
    /\ geo_out = <<>>
    /\ MdIdle
    /\ RtIdle
    /\ LeIdle
    /\ HdrIdle
    /\ BatIdle
    /\ OpenIdle
    /\ SelIdle

\* the four calls, chained as MetaData::deserialize chains them
GeoCall ==
    /\ geo_pc = "call"
    /\ LET payload_blocks_count ==
                calc_payload_blocks_count(geo_in.virtual_disk_size, geo_in.block_size)
           sector_bitmap_blocks_count ==
                calc_sector_bitmap_blocks_count(payload_blocks_count, geo_in.chunk_ratio)
       IN  geo_out' =
               [payload_blocks_count |-> payload_blocks_count,
                sector_bitmap_blocks_count |-> sector_bitmap_blocks_count,
                total_bat_entries_fixed_dynamic |->
                    calc_total_bat_entries_fixed_dynamic(payload_blocks_count,
                                                         geo_in.chunk_ratio),
                total_bat_entries_differencing |->
                    calc_total_bat_entries_differencing(sector_bitmap_blocks_count,
                                                        geo_in.chunk_ratio)]
    /\ geo_pc' = "done"
    /\ UNCHANGED <<geo_in, mdVars, rtVars, leVars, hdrVars, batVars, selVars, openVars>>

GeoNext == GeoCall

SpecGeo == GeoInit /\ [][GeoNext]_vars

\* n is the ceiling of a / b
IsCeil(n, a, b) == n * b >= a /\ (n - 1) * b < a
\* n is the floor of a / b
IsFloor(n, a, b) == n * b <= a /\ (n + 1) * b > a

MdImage(entry_count, ids, is_required, more) ==
    [readable |-> TRUE, entry_count |-> entry_count, ids |-> ids,
     is_required |-> is_required, more |-> more,
     block_size |-> MB, has_parent |-> FALSE, virtual_disk_size |-> 3 * MB,
     logical_sector_size |-> 512, physical_sector_size |-> 4096]

AllRequired == <<TRUE, TRUE, TRUE, TRUE, TRUE>>

MdImageSet ==
    \* the five known items, every combination of stored values
    { [MdImage(5, KnownItems, AllRequired, <<>>) EXCEPT
          !.block_size = bs, !.virtual_disk_size = vds,
          !.logical_sector_size = lss, !.has_parent = hp] :
        bs \in {0, MB, 3 * MB, 32 * MB}, vds \in {0, MB, 3 * MB, KB * MB},
        lss \in {512, 1024, 4096}, hp \in BOOLEAN }
    \cup
    \* other tables, with the stored values of MdImage
    { [MdImage(5, KnownItems, AllRequired, <<>>) EXCEPT !.readable = FALSE],
      \* no entry at all
      MdImage(0, <<"Nil", "Nil", "Nil", "Nil", "Nil">>,
              <<FALSE, FALSE, FALSE, FALSE, FALSE>>, <<>>),
      \* four entries, PhysicalSectorSize is missing
      MdImage(4, [KnownItems EXCEPT ![5] = "Nil"], [AllRequired EXCEPT ![5] = FALSE], <<>>),
      \* five entries, FileParameters twice and no VirtualDiskSize
      MdImage(5, [KnownItems EXCEPT ![2] = "FileParameters"], AllRequired, <<>>),
      \* five entries, the last one an unknown required item
      MdImage(5, [KnownItems EXCEPT ![5] = "Other"], AllRequired, <<>>),
      \* six entries: the known five, then an unknown optional item
      MdImage(6, KnownItems, AllRequired, << [item_id |-> "Other", is_required |-> FALSE] >>),
      \* six entries: the known five, then an unknown required item
      MdImage(6, KnownItems, AllRequired, << [item_id |-> "Other", is_required |-> TRUE] >>),
      \* six entries: an unknown optional item, then the known five
      MdImage(6, <<"Other", "FileParameters", "VirtualDiskSize", "VirtualDiskID",
                   "LogicalSectorSize">>,
              [AllRequired EXCEPT ![1] = FALSE],
              << [item_id |-> "PhysicalSectorSize", is_required |-> TRUE] >>) }

IsKnownItem(id) == \E j \in 1..5 : id = KnownItems[j]

\* what MetaData::deserialize produces when it does not return Ok
MdStopped(kind, err, examined) ==
    [kind |-> kind, err |-> err, examined |-> examined,
     block_size |-> 0, has_parent |-> FALSE, virtual_disk_size |-> 0,
     logical_sector_size |-> 0, physical_sector_size |-> 0,
     chunk_ratio |-> 0, payload_blocks_count |-> 0, sector_bitmaps_blocks_count |-> 0,
     total_bat_entries_fixed_dynamic |-> 0, total_bat_entries_differencing |-> 0]

\* the BAT entry count computed from a wrapped payload_blocks_count - 1:
\* floor((2^64 - 1) / chunk_ratio), written as the largest integer the
\* checker holds
WrappedCount == 2147483647

\* MetaData::deserialize; examined is the number of table entries read
MetaData_deserialize(img) ==
    IF ~img.readable
    THEN MdStopped("Err", "IoError", 0)
    ELSE IF \E k \in 1..5 : ~IsKnownItem(img.ids[k])
    THEN \* panic!("Could not identify signature for read metadata entry")
         MdStopped("panic", "none",
                   CHOOSE k \in 1..5 : /\ ~IsKnownItem(img.ids[k])
                                       /\ \A j \in 1..(k - 1) : IsKnownItem(img.ids[j]))
    ELSE IF \E j \in 1..5 : \A k \in 1..5 : img.ids[k] # KnownItems[j]
    THEN \* entries[&ITEM] on a key the map does not hold
         MdStopped("panic", "none", 5)
    ELSE IF \/ SectorSize_try_from(img.logical_sector_size) = 0
            \/ SectorSize_try_from(img.physical_sector_size) = 0
    THEN \* t_sector_size: Err(_) => todo!()
         MdStopped("panic", "none", 5)
    ELSE IF img.block_size = 0
    THEN \* calc_chunk_ratio divides by zero
         MdStopped("panic", "none", 5)
    ELSE LET logical_sector_size == SectorSize_try_from(img.logical_sector_size)
             chunk_ratio == calc_chunk_ratio(logical_sector_size, img.block_size)
             payload_blocks_count ==
                 calc_payload_blocks_count(img.virtual_disk_size, img.block_size)
             sector_bitmaps_blocks_count ==
                 calc_sector_bitmap_blocks_count(payload_blocks_count, chunk_ratio)
         IN  [kind |-> "Ok", err |-> "none", examined |-> 5,
              block_size |-> img.block_size, has_parent |-> img.has_parent,
              virtual_disk_size |-> img.virtual_disk_size,
              logical_sector_size |-> logical_sector_size,
              physical_sector_size |-> SectorSize_try_from(img.physical_sector_size),
              chunk_ratio |-> chunk_ratio,
              payload_blocks_count |-> payload_blocks_count,
              sector_bitmaps_blocks_count |-> sector_bitmaps_blocks_count,
              total_bat_entries_fixed_dynamic |->
                  calc_total_bat_entries_fixed_dynamic(payload_blocks_count, chunk_ratio),
              total_bat_entries_differencing |->
                  calc_total_bat_entries_differencing(sector_bitmaps_blocks_count,
                                                      chunk_ratio)]

MdInit ==
    /\ md_pc = "call"
    /\ md_img \in MdImageSet
    /\ md_res = <<>>
    /\ GeoIdle
    /\ RtIdle
    /\ LeIdle
    /\ HdrIdle
    /\ BatIdle
    /\ OpenIdle
    /\ SelIdle

MdCall ==
    /\ md_pc = "call"
    /\ LET r == MetaData_deserialize(md_img) IN
         IF r.kind = "Ok" /\ r.payload_blocks_count = 0
         THEN \* payload_blocks_count - 1 leaves u64: a panic in a build with
              \* overflow checks; without them the difference wraps to 2^64 - 1
              \* and the decode returns the count computed from it
              \/ md_res' = MdStopped("panic", "none", 5)
              \/ md_res' = [r EXCEPT !.total_bat_entries_fixed_dynamic = WrappedCount]
         ELSE md_res' = r
    /\ md_pc' = "done"
    /\ UNCHANGED <<md_img, geoVars, rtVars, leVars, hdrVars, batVars, selVars, openVars>>

MdNext == MdCall

SpecMd == MdInit /\ [][MdNext]_vars

\* the table holds the five known items once each and the stored sector
\* sizes are 512 or 4096: the decode gets as far as the geometry
ReachesGeometry(img) ==
    /\ img.readable
    /\ img.ids = KnownItems
    /\ img.logical_sector_size \in {512, 4096}
    /\ img.physical_sector_size \in {512, 4096}

\* ---------------------------------------------------------------------
\* C14: whenever the geometry is computed successfully,
\* chunk_ratio * block_size = 2^23 * logical_sector_size, with the
\* logical sector size stored in the file (512 or 4096); a block size
\* that does not divide 2^23 * logical_sector_size makes the computation
\* fail with BadGeometry. Block sizes are multiples of 1 MiB, so both
\* sides of the identity are stated divided by 1 MiB.
\* ---------------------------------------------------------------------
C14_ChunkRatioIdentity ==
    (md_pc = "done" /\ ReachesGeometry(md_img) /\ md_img.block_size > 0) =>
        LET blocks_mb == md_img.block_size \div MB
            product_mb == (2^23 \div MB) * md_img.logical_sector_size
        IN  /\ md_res.kind = "Ok" => md_res.chunk_ratio * blocks_mb = product_mb
            /\ product_mb % blocks_mb # 0 =>
                   md_res.kind = "Err" /\ md_res.err = "BadGeometry"

\* the open has succeeded on a 1 GiB disk with 512-byte logical sectors,
\* blocks of 32 MiB and a nil log GUID in the current header
MinimalDiskOpened ==
    /\ pc = "ok"
    /\ meta_data.virtual_disk_size = KB * MB
    /\ meta_data.logical_sector_size = 512
    /\ meta_data.block_size = 32 * MB
    /\ CurrentHeader.log_guid = NilGuid

\* the values of the open that C15 names, but for the chunk ratio
MinimalDiskValues ==
    /\ meta_data.payload_blocks_count = 32
    /\ meta_data.total_bat_entries_fixed_dynamic = 32
    /\ is_empty(active)
    /\ Len(bat_table) = 32

C16_SectorSizeIsLiteral ==
    (md_pc = "done" /\ md_img.readable /\ md_img.ids = KnownItems
       /\ md_img.block_size > 0) =>
        IF md_img.logical_sector_size \in {512, 4096}
        THEN md_res.kind = "Ok"
             /\ md_res.logical_sector_size = md_img.logical_sector_size
        ELSE md_res.kind = "Err" /\ md_res.err = "BadSectorSize"

\* the item ids of the entries the table declares
DeclaredItems(img) ==
    { img.ids[k] : k \in { j \in 1..5 : j <= img.entry_count } }
    \cup { img.more[k].item_id : k \in 1..Len(img.more) }

\* ---------------------------------------------------------------------
\* C17: if the metadata table lacks an entry for any of the five required
\* items, the decode returns the error MissingRequiredMetadata.
\* ---------------------------------------------------------------------
C17_MissingItemIsTypedError ==
    (md_pc = "done" /\ md_img.readable
       /\ \E j \in 1..5 : KnownItems[j] \notin DeclaredItems(md_img)) =>
        md_res.kind = "Err" /\ md_res.err = "MissingRequiredMetadata"

\* the unknown entries of the table are all optional
UnknownAreOptional(img) ==
    /\ \A k \in 1..5 :
          (k <= img.entry_count /\ ~IsKnownItem(img.ids[k])) => ~img.is_required[k]
    /\ \A k \in 1..Len(img.more) :
          ~IsKnownItem(img.more[k].item_id) => ~img.more[k].is_required

\* ---------------------------------------------------------------------
\* C18: the metadata decoder examines exactly the entry_count entries the
\* table header declares; an unrecognised entry whose is_required flag is
\* clear is skipped without failing, so a table of the five known items
\* and optional unknown ones decodes.
\* ---------------------------------------------------------------------
C18_ExaminesDeclaredEntries ==
    (md_pc = "done" /\ md_img.readable) =>
        /\ md_res.examined <= md_img.entry_count
        /\ md_res.kind = "Ok" => md_res.examined = md_img.entry_count
        /\ ( /\ \A j \in 1..5 : KnownItems[j] \in DeclaredItems(md_img)
             /\ UnknownAreOptional(md_img)
             /\ md_img.logical_sector_size \in {512, 4096}
             /\ md_img.block_size = MB )
           => md_res.kind = "Ok"

\* ---------------------------------------------------------------------
\* RegionTable::deserialize called on a region-table slot of its own, one
\* action per read
\* ---------------------------------------------------------------------
\* the greatest entry count a region table may declare
RT_MAX_ENTRY_COUNT == 2047

\* A region-table slot: entry_count is the count its header declares,
\* kinds[k] the region the GUID of entry k names ("Other": neither BAT nor
\* Metadata), required[k] its Required field; the entries after the listed
\* ones are BAT entries with Required set.
RtImage(kinds, required, entry_count) ==
    [signature |-> "Regi", crc_ok |-> TRUE, kinds |-> kinds, required |-> required,
     entry_count |-> entry_count]

RtEntryKind(img, k) == IF k <= Len(img.kinds) THEN img.kinds[k] ELSE "Bat"
RtEntryRequired(img, k) == IF k <= Len(img.kinds) THEN img.required[k] ELSE TRUE

\* the sequences of length n over S
SeqsOfLen(S, n) == [1..n -> S]

RtImageSet ==
    \* every table of at most two entries
    UNION { { RtImage(k, r, n) : k \in SeqsOfLen({"Bat", "MetaData", "Other"}, n),
                                 r \in SeqsOfLen(BOOLEAN, n) } : n \in 0..2 }
    \cup
    \* tables declaring the greatest count and one more, every entry a BAT entry
    { RtImage(<<>>, <<>>, n) : n \in {RT_MAX_ENTRY_COUNT, RT_MAX_ENTRY_COUNT + 1} }

\* the stream position of the first region table
RtStart == FileTypeIdentifier_SIZE + 2 * Header_SIZE

RtInit ==
    /\ rt_pc = "header"
    /\ rt_img \in RtImageSet
    /\ rt_res = [kind |-> "running", err |-> "none", read |-> 0, table_entries |-> {},
                 offset |-> 0, pos |-> RtStart]
    /\ GeoIdle
    /\ MdIdle
    /\ LeIdle
    /\ HdrIdle
    /\ BatIdle
    /\ OpenIdle
    /\ SelIdle

\* the 16-byte header is read; offset = RT_HEADER_SIZE - HEADER_SIZE
RtReadHeader ==
    /\ rt_pc = "header"
    /\ rt_res' = [rt_res EXCEPT
                    !.offset = RegionTable_RT_HEADER_SIZE - RegionTable_HEADER_SIZE,
                    !.pos = @ + RegionTable_HEADER_SIZE]
    /\ rt_pc' = "loop"
    /\ UNCHANGED <<rt_img, geoVars, mdVars, leVars, hdrVars, batVars, selVars, openVars>>

\* one iteration of `for _ in 0..header.entry_count`
RtReadEntry ==
    /\ rt_pc = "loop"
    /\ rt_res.read < rt_img.entry_count
    /\ LET k == rt_res.read + 1
           kind == RtEntryKind(rt_img, k)
           entry_read == [rt_res EXCEPT !.read = k, !.pos = @ + RegionTable_ENTRY_SIZE]
           inserted == [entry_read EXCEPT
                          !.table_entries = { e \in @ : e[1] # kind }
                                            \cup { <<kind, RegionOffset(kind)>> },
                          !.offset = @ - RegionTable_ENTRY_SIZE]
       IN  IF kind \notin {"Bat", "MetaData"}
           THEN \* Err(VhdxError::UnknownRTEntryFound(..))?
                /\ rt_res' = [entry_read EXCEPT !.kind = "Err", !.err = "UnknownRTEntryFound"]
                /\ rt_pc' = "done"
           ELSE IF rt_res.offset >= RegionTable_ENTRY_SIZE \/ rt_res.offset < 0
           THEN /\ rt_res' = inserted
                /\ rt_pc' = "loop"
           ELSE \* offset -= ENTRY_SIZE leaves usize: a panic in a build with
                \* overflow checks; in a build without them the value wraps
                \* (a negative offset stands for the wrapped value, which
                \* `offset as i64` turns into that negative number)
                \/ /\ rt_res' = [entry_read EXCEPT !.kind = "panic"]
                   /\ rt_pc' = "done"
                \/ /\ rt_res' = inserted
                   /\ rt_pc' = "loop"
    /\ UNCHANGED <<rt_img, geoVars, mdVars, leVars, hdrVars, batVars, selVars, openVars>>

\* reader.seek(SeekFrom::Current(offset as i64)) and Ok(header)
RtSeek ==
    /\ rt_pc = "loop"
    /\ rt_res.read = rt_img.entry_count
    /\ rt_res' = [rt_res EXCEPT !.kind = "Ok", !.pos = @ + rt_res.offset]
    /\ rt_pc' = "done"
    /\ UNCHANGED <<rt_img, geoVars, mdVars, leVars, hdrVars, batVars, selVars, openVars>>

RtNext ==
    \/ RtReadHeader
    \/ RtReadEntry
    \/ RtSeek

SpecRt == RtInit /\ [][RtNext]_vars

\* the entries of the slot whose GUID names no known region
UnknownEntries(img) ==
    { k \in 1..img.entry_count : RtEntryKind(img, k) \notin {"Bat", "MetaData"} }

\* the table the known entries of the slot alone decode to
KnownTable(img) ==
    { <<RtEntryKind(img, k), RegionOffset(RtEntryKind(img, k))>> :
        k \in (1..img.entry_count) \ UnknownEntries(img) }

\* ---------------------------------------------------------------------
\* C19: a region-table entry whose GUID is neither BAT nor Metadata makes
\* the decode fail when its required flag is set; when the flag is clear
\* the decode does not fail and the BAT and Metadata offsets are those of
\* the known entries.
\* ---------------------------------------------------------------------
C19_UnknownRegionFollowsRequired ==
    (rt_pc = "done" /\ UnknownEntries(rt_img) # {}
       /\ rt_img.entry_count <= RT_MAX_ENTRY_COUNT) =>
        IF \E k \in UnknownEntries(rt_img) : RtEntryRequired(rt_img, k)
        THEN rt_res.kind = "Err"
        ELSE rt_res.kind = "Ok" /\ rt_res.table_entries = KnownTable(rt_img)

\* ---------------------------------------------------------------------
\* C20: a region table whose entry count exceeds 2047 is rejected with an
\* error: the decoder never reads more than 2047 entries, the reader never
\* moves beyond the 64-KiB slot, and the remaining padding
\* 65536 - 16 - 32 * (entries read) never goes below zero.
\* ---------------------------------------------------------------------
C20_EntryCountBounded ==
    /\ rt_pc \in {"loop", "done"} =>
          /\ rt_res.read <= RT_MAX_ENTRY_COUNT
          /\ rt_res.pos <= RtStart + RegionTable_RT_HEADER_SIZE
          /\ rt_res.offset >= 0
    /\ (rt_pc = "done" /\ rt_img.entry_count > RT_MAX_ENTRY_COUNT) => rt_res.kind = "Err"

\* ---------------------------------------------------------------------
\* C21: decoding the file-type identifier fails with a signature error
\* whenever the first 8 bytes of the file are not "vhdxfile"; it succeeds,
\* with signature Vhdxfile, only when they are.
\* ---------------------------------------------------------------------
C21_FtiDecodedOnlyWithMagic ==
    fti # "none" => fti = "Vhdxfile"

\* ---------------------------------------------------------------------
\* LogEntry::deserialize, LogEntry::valid and LogEntry::crc32 called on a
\* log entry of their own
\* ---------------------------------------------------------------------
\* the CRC-32C of the first entry_length bytes of an entry image with the
\* checksum field taken as zero
EntryBytesCrc(img) ==
    Digest(<<img.seq_number, img.log_guid, Len(img.descs), img.body>>, 0)

\* A log entry in the file: its header fields, its descriptors, whether the
\* descriptors and the data sectors carry the header's sequence number, and
\* the rest of its bytes (body)
GoodEntryImage(s, descs) ==
    LET img == [readable |-> TRUE, signature |-> "Loge", log_guid |-> 1,
                seq_number |-> s, checksum |-> 0, descs |-> descs, body |-> 0,
                desc_seq_ok |-> TRUE, sector_seq_ok |-> TRUE]
    IN  [img EXCEPT !.checksum = EntryBytesCrc(img)]

\* the greatest descriptor count whose array ends inside the first sector
DescsInFirstSector == (SECTOR_SIZE - LOG_HEADER_SIZE) \div DESC_SIZE

EntryImageSet ==
    \* well-formed headers, every mix of at most MaxDescs descriptors
    UNION { { GoodEntryImage(1, d) : d \in [1..n -> {"Desc", "Zero"}] } : n \in 0..MaxDescs }
    \cup
    \* descriptor arrays that end at the end of the first sector and past it
    { GoodEntryImage(1, [k \in 1..n |-> "Desc"]) :
        n \in {DescsInFirstSector, DescsInFirstSector + 1} }
    \cup
    \* single defects
    UNION { { [GoodEntryImage(s, <<"Desc">>) EXCEPT !.signature = "Unknown"],
              [GoodEntryImage(s, <<"Desc">>) EXCEPT !.log_guid = 2],
              [GoodEntryImage(s, <<"Desc">>) EXCEPT !.checksum = (@ + 1) % 65521],
              [GoodEntryImage(s, <<"Desc">>) EXCEPT !.body = 1],
              [GoodEntryImage(s, <<"Desc">>) EXCEPT !.desc_seq_ok = FALSE],
              [GoodEntryImage(s, <<"Desc">>) EXCEPT !.sector_seq_ok = FALSE],
              [GoodEntryImage(s, <<"Desc">>) EXCEPT !.readable = FALSE],
              GoodEntryImage(s, <<"Unknown">>) } : s \in 1..2 }

\* LogEntry::valid(uuid): the body is `false`
LogEntry_valid(uuid) == FALSE

\* LogEntry::crc32: the digest is finalized with nothing fed to it
LogEntry_crc32(entry) == Digest(<<>>, 0)

\* the stream position the entry starts at
LeStart == MB

LeInit ==
    /\ le_pc = "call"
    /\ \E img \in EntryImageSet, g \in Guids : le_img = [entry |-> img, log_guid |-> g]
    /\ le_res = <<>>
    /\ GeoIdle
    /\ MdIdle
    /\ RtIdle
    /\ HdrIdle
    /\ BatIdle
    /\ OpenIdle
    /\ SelIdle

\* the entry is decoded, then asked whether it is valid for the log GUID
LeCall ==
    /\ le_pc = "call"
    /\ LET img == le_img.entry
           r == LogEntry_deserialize(img, LeStart)
           res == [kind |-> r.kind, err |-> r.err, pos |-> r.pos,
                   valid |-> LogEntry_valid(le_img.log_guid),
                   crc32 |-> LogEntry_crc32(img)]
       IN  IF r.kind = "ok" /\ LOG_HEADER_SIZE + DESC_SIZE * Len(img.descs) > SECTOR_SIZE
           THEN \* SECTOR_SIZE - (current_pos - start_pos) leaves u64: a panic in
                \* a build with overflow checks; without them the value wraps
                \* and `offset as i64` seeks backwards by the excess
                \/ le_res' = [res EXCEPT !.kind = "panic", !.pos = LeStart]
                \/ le_res' = res
           ELSE le_res' = res
    /\ le_pc' = "done"
    /\ UNCHANGED <<le_img, geoVars, mdVars, rtVars, hdrVars, batVars, selVars, openVars>>

LeNext == LeCall

SpecLe == LeInit /\ [][LeNext]_vars

\* ---------------------------------------------------------------------
\* C22: an entry is valid for log GUID g if and only if its header
\* signature is "loge", its header log GUID equals g, the CRC-32C
\* recomputed over its first entry_length bytes with the checksum field
\* taken as zero equals the stored checksum, every descriptor's sequence
\* number equals the header's and every data sector's composed sequence
\* number equals the header's.
\* ---------------------------------------------------------------------
C22_ValidIffAllChecksPass ==
    (le_pc = "done" /\ le_res.kind = "ok") =>
        LET img == le_img.entry IN
        /\ (le_res.crc32 = img.checksum) <=> (EntryBytesCrc(img) = img.checksum)
        /\ le_res.valid <=> ( /\ img.signature = "Loge"
                              /\ img.log_guid = le_img.log_guid
                              /\ EntryBytesCrc(img) = img.checksum
                              /\ img.desc_seq_ok
                              /\ img.sector_seq_ok )

\* the smallest multiple of SECTOR_SIZE that is >= 64 + 32 * n
DescriptorBoundary(n) ==
    ((LOG_HEADER_SIZE + DESC_SIZE * n + SECTOR_SIZE - 1) \div SECTOR_SIZE) * SECTOR_SIZE

\* ---------------------------------------------------------------------
\* C23: for every descriptor count n and every mix of Zero and Data
\* descriptors, the decode of a log entry skips to the smallest multiple
\* of 4096 that is >= 64 + 32 * n bytes from the entry start and consumes
\* one 4096-byte data sector per Data descriptor and none per Zero
\* descriptor: the reader ends at
\* entry start + boundary + 4096 * (number of Data descriptors).
\* ---------------------------------------------------------------------
C23_EntryEndsAtSectorBoundary ==
    (le_pc = "done" /\ le_img.entry.readable
       /\ \A k \in 1..Len(le_img.entry.descs) : le_img.entry.descs[k] \in {"Desc", "Zero"}) =>
        /\ le_res.kind = "ok"
        /\ le_res.pos = LeStart + DescriptorBoundary(Len(le_img.entry.descs))
                          + SECTOR_SIZE * DataCount(le_img.entry.descs)

\* ---------------------------------------------------------------------
\* The log scan of Vhdx::new followed to the end of the log region
\* ---------------------------------------------------------------------
\* entries of one sector, of two sectors, and of the greatest size whose
\* descriptor array ends inside the first sector
LongScanImageSet ==
    { [signature |-> "Loge", descs |-> d, readable |-> TRUE] :
        d \in { <<>>, <<"Desc">>, [k \in 1..DescsInFirstSector |-> "Desc"] } }

\* the states of Vhdx::new right after the seek to log_offset, for files
\* with well-formed headers and region tables
LongScanInit ==
    /\ pc = "scan"
    /\ steps = <<"fti", "h1", "h2", "rt1", "rt2", "elect", "validate", "log">>
    /\ fti \in {"Vhdxfile", "Unknown"}
    /\ header_1 \in { StampChecksum(GoodHeaderFields(s, g, MB)) :
                         s \in 1..MaxHdrSeq, g \in {NilGuid, 1} }
    /\ header_2 \in { StampChecksum(GoodHeaderFields(s, g, MB)) :
                         s \in 1..MaxHdrSeq, g \in {NilGuid, 1} }
    /\ region_table_1 = RegionTable_deserialize(RTImage("Regi", TRUE, <<"Bat", "MetaData">>),
                                                 FileTypeIdentifier_SIZE + 2 * Header_SIZE).table
    /\ region_table_2 = region_table_1
    /\ header_no = get_current_header(header_1, header_2).no
    /\ pos = CurrentHeader.log_offset
    /\ log_end = CurrentHeader.log_offset + CurrentHeader.log_length
    /\ log_entries = <<>>
    /\ peeked = "none"
    /\ meta_data = NoMetaData
    /\ bat_table = <<>>
    /\ error = "none"
    /\ SelIdle
    /\ UnitIdle

LongScanEntry == ScanEntryOf(LongScanImageSet, MaxLongScan)

LongScanNext ==
    \/ LongScanEntry
    \/ ScanEnd

SpecScan == LongScanInit /\ [][LongScanNext]_vars

\* ---------------------------------------------------------------------
\* C24: during the log scan every byte read lies in
\* [log_offset, log_offset + log_length): the reader position never
\* exceeds log_offset + log_length, and when an entry ends exactly at
\* log_offset + log_length the scan stops without reading the 4 bytes of
\* the peek.
\* ---------------------------------------------------------------------
C24_ScanStaysInLogRegion ==
    pc \in {"scan", "regions"} =>
        /\ pos <= log_end
        /\ (pos = log_end /\ log_entries # <<>>) => peeked = "none"

\* the size of each of the five slots of the fixed header section
SlotSize == FileTypeIdentifier_SIZE

HeaderBytesCrc(img) ==
    Digest(<<SignBytes(img.signature), ZeroBytes, img.seq_number, img.file_write_guid,
             img.data_write_guid, img.log_guid, img.log_version, img.version,
             img.log_length, img.log_offset, img.reserved>>, 0)

\* the 4096 bytes of a header in the file, without the checksum field
HeaderBytesSet ==
    { [signature |-> sg, seq_number |-> s, file_write_guid |-> 1, data_write_guid |-> 1,
       log_guid |-> g, log_version |-> 0, version |-> v, log_length |-> MB,
       log_offset |-> MB, reserved |-> rs] :
        sg \in {"Head", "Unknown"}, s \in 1..MaxHdrSeq, g \in {NilGuid} \cup Guids,
        v \in {1, 2}, rs \in {ZeroBytes, 1} }

\* a header in the file: the stored checksum is the CRC of the bytes in
\* the file, the CRC of the fields followed by zero bytes, or neither
HeaderImageSet ==
    UNION { { [checksum |-> c] @@ b :
                c \in {HeaderBytesCrc(b), Header_crc32(b), (HeaderBytesCrc(b) + 1) % 65521} } :
            b \in HeaderBytesSet }

\* Header::deserialize: the fields of bytes 0..80; bytes 80..4096 are not kept
Header_deserialize(img) ==
    [signature |-> img.signature, checksum |-> img.checksum, seq_number |-> img.seq_number,
     file_write_guid |-> img.file_write_guid, data_write_guid |-> img.data_write_guid,
     log_guid |-> img.log_guid, log_version |-> img.log_version, version |-> img.version,
     log_length |-> img.log_length, log_offset |-> img.log_offset]

HdrInit ==
    /\ hdr_pc = "call"
    /\ hdr_img \in HeaderImageSet
    /\ hdr_res = <<>>
    /\ GeoIdle
    /\ MdIdle
    /\ RtIdle
    /\ LeIdle
    /\ BatIdle
    /\ OpenIdle
    /\ SelIdle

\* the slot is decoded and the header is checked as get_current_header does
HdrCall ==
    /\ hdr_pc = "call"
    /\ LET header == Header_deserialize(hdr_img) IN
         hdr_res' = [header |-> header, crc32 |-> Header_crc32(header),
                     check |-> check_sign_and_crc(header)]
    /\ hdr_pc' = "done"
    /\ UNCHANGED <<hdr_img, geoVars, mdVars, rtVars, leVars, batVars, selVars, openVars>>

HdrNext == HdrCall

SpecHdr == HdrInit /\ [][HdrNext]_vars

\* ---------------------------------------------------------------------
\* C26: for every 4-KiB header image the checksum the election compares
\* with the stored one is the CRC-32C of the 4096 bytes in the file with
\* bytes 4..8 zeroed, also when bytes 80..4096 are not all zero; a header
\* is valid exactly when its signature is "head" and its stored checksum
\* matches the bytes in the file.
\* ---------------------------------------------------------------------
C26_ChecksumIsOverFileBytes ==
    hdr_pc = "done" =>
        /\ hdr_img.signature = "Head" => hdr_res.crc32 = HeaderBytesCrc(hdr_img)
        /\ hdr_res.check = "Ok" <=>
               (hdr_img.signature = "Head" /\ hdr_img.checksum = HeaderBytesCrc(hdr_img))

\* ---------------------------------------------------------------------
\* One BAT entry: BatEntry::deserialize
\* ---------------------------------------------------------------------
\* view_bits::<Lsb0> of a byte buffer: bit j of the slice is bit (j mod 8),
\* counted from the least significant, of byte (j div 8)
view_bits(buffer) ==
    [j \in 1..(8 * Len(buffer)) |->
        (buffer[((j - 1) \div 8) + 1] \div (2 ^ ((j - 1) % 8))) % 2]

\* BitSlice::split_at
split_at(bits, mid) ==
    <<SubSeq(bits, 1, mid), SubSeq(bits, mid + 1, Len(bits))>>

\* BitField::load of an Lsb0 slice on a little-endian target: the first bit
\* is the least significant
RECURSIVE load(_)
load(bits) ==
    IF bits = <<>> THEN 0 ELSE Head(bits) + 2 * load(Tail(bits))

\* BatEntryState::from_bits
BatEntryState_from_bits(value) ==
    CASE value = 0 -> "NotPresent"
      [] value = 1 -> "Undefined"
      [] value = 2 -> "Zero"
      [] value = 3 -> "Unmapped"
      [] value = 6 -> "FullyPresent"
      [] value = 7 -> "PartiallyPresent"
      [] OTHER -> "Unknown"

\* BatEntry::deserialize with 16 bits skipped after the state instead of 17
BatEntry_deserialize_skip16(buffer) ==
    LET bits == view_bits(buffer)
        head_value == load(split_at(bits, 3)[1])
        rest == split_at(split_at(bits, 3)[2], 16)[2]
    IN  [state |-> BatEntryState_from_bits(head_value),
         file_offset_mb |-> load(split_at(rest, 44)[1])]

\* BatEntry::deserialize of the 8 bytes read
BatEntry_deserialize(buffer) ==
    LET bits == view_bits(buffer)
        head_value == load(split_at(bits, 3)[1])
        rest == split_at(split_at(bits, 3)[2], 17)[2]
    IN  [state |-> BatEntryState_from_bits(head_value),
         file_offset_mb |-> load(split_at(rest, 44)[1])]

\* the 8 bytes of an entry: every state code, reserved bits 3..20 clear,
\* partly set and all set, and file offsets of 0 up to 2047 MiB
BatBufferSet ==
    { <<b0, b1, b2, b3, 0, 0, 0, 0>> :
        b0 \in { st + 8 * k : st \in 0..7, k \in {0, 31} },
        b1 \in {0, 255}, b2 \in {0, 15, 16, 255}, b3 \in {0, 1, 127} }

\* u64::from_le_bytes of the buffer
BatValue(buffer) ==
    buffer[1] + 256 * buffer[2] + 65536 * buffer[3] + 16777216 * buffer[4]

BatInit ==
    /\ bat_pc = "call"
    /\ bat_img \in BatBufferSet
    /\ bat_res = <<>>
    /\ GeoIdle
    /\ MdIdle
    /\ RtIdle
    /\ LeIdle
    /\ HdrIdle
    /\ OpenIdle
    /\ SelIdle

BatCall ==
    /\ bat_pc = "call"
    /\ bat_res' = BatEntry_deserialize(bat_img)
    /\ bat_pc' = "done"
    /\ UNCHANGED <<bat_img, geoVars, mdVars, rtVars, leVars, hdrVars, selVars, openVars>>

BatNext == BatCall

SpecBat == BatInit /\ [][BatNext]_vars

\* the state the format gives to a 3-bit state code
BatStateOfCode ==
    [c \in 0..7 |->
        CASE c = 0 -> "NotPresent" [] c = 1 -> "Undefined" [] c = 2 -> "Zero"
          [] c = 3 -> "Unmapped" [] c = 6 -> "FullyPresent"
          [] c = 7 -> "PartiallyPresent" [] OTHER -> "Unknown"]

\* ---------------------------------------------------------------------
\* C27: for every 8-byte little-endian BAT entry value v the decoder
\* returns the state of v mod 8 (0 NotPresent, 1 Undefined, 2 Zero,
\* 3 Unmapped, 6 FullyPresent, 7 PartiallyPresent, Unknown and no error
\* for 4 and 5) and the file offset in MiB v / 2^20; bits 3..20 change
\* neither.
\* ---------------------------------------------------------------------
C27_BatEntryBitFields ==
    bat_pc = "done" =>
        /\ bat_res.state = BatStateOfCode[BatValue(bat_img) % 8]
        /\ bat_res.file_offset_mb = BatValue(bat_img) \div MB

\* a code without a state, all of bits 3..20 set, and a non-zero offset
C27_Witness ==
    /\ bat_pc = "done"
    /\ BatValue(bat_img) % 8 = 4
    /\ (BatValue(bat_img) \div 8) % 131072 = 131071
    /\ bat_res.state = "Unknown"
    /\ bat_res.file_offset_mb = 2047

\* ---------------------------------------------------------------------
\* try_get_log_sequence run to its end: the function is sequential code, so
\* a step that can be taken is taken
\* ---------------------------------------------------------------------
SpecSelLive == SelInit /\ [][SelNext]_vars /\ WF_vars(SelNext)

\* ---------------------------------------------------------------------
\* C28: try_get_log_sequence terminates for every finite list of entries
\* and every pattern of valid and invalid entries; the outer loop runs a
\* bounded number of times (twice at most) even though read_items is set
\* back to an index relative to the slice when an entry is invalid.
\* ---------------------------------------------------------------------
C28_SelectorTerminates ==
    /\ [](iters <= 2)
    /\ <>(spc = "done")

\* the second pass met an invalid entry at the head of its slice, which set
\* read_items back to 0, and the function returned the first candidate
C28_Witness ==
    /\ spc = "done"
    /\ iters = 2
    /\ slice_start > 0
    /\ read_items = 0
    /\ ~is_empty(active)

\* a region-table copy passes validation and holds both known regions
CopyUsable(r) ==
    /\ RegionTable_validate(r) = "Ok"
    /\ HasRegion(r, "MetaData")
    /\ HasRegion(r, "Bat")

\* the copy with the index of the elected header, and the other copy
CopyOfElected == IF header_no = 1 THEN region_table_1 ELSE region_table_2
CopyNotElected == IF header_no = 1 THEN region_table_2 ELSE region_table_1

\* the region-table step has acted
RegionsStepTaken == \E k \in 1..Len(steps) : steps[k] = "regions"

\* ---------------------------------------------------------------------
\* C29: the region-table copy the open uses has the index of the elected
\* header, and only that copy is validated: the open goes on to the
\* metadata exactly when that copy is valid and holds a Metadata and a BAT
\* entry, and fails otherwise, even if the other copy is valid.
\* ---------------------------------------------------------------------
C29_RegionCopyFollowsElectedHeader ==
    RegionsStepTaken =>
        /\ header_no = get_current_header(header_1, header_2).no
        /\ (steps[Len(steps)] = "regions" /\ pc = "err") <=> ~CopyUsable(CopyOfElected)
        /\ (steps[Len(steps)] = "regions" /\ pc = "err") =>
               error = IF RegionTable_validate(CopyOfElected) # "Ok"
                       THEN RegionTable_validate(CopyOfElected)
                       ELSE IF ~HasRegion(CopyOfElected, "MetaData")
                       THEN "MissingKnownRegion(MetaData)"
                       ELSE "MissingKnownRegion(Bat)"

\* the open failed on the copy of the elected header while the other copy
\* was valid and complete
C29_Witness ==
    /\ RegionsStepTaken
    /\ pc = "err"
    /\ steps[Len(steps)] = "regions"
    /\ ~CopyUsable(CopyOfElected)
    /\ CopyUsable(CopyNotElected)

\* ---------------------------------------------------------------------
\* C30: for every set of metadata values the decoder accepts, the geometry
\* computation divides by no zero and leaves the unsigned 64-bit range
\* nowhere; a virtual_disk_size of 0 (payload_blocks_count = 0, then
\* payload_blocks_count - 1) and a block_size of 0 do not reach the
\* arithmetic.
\* ---------------------------------------------------------------------
C30_GeometryArithmeticIsSafe ==
    (md_pc = "done" /\ ReachesGeometry(md_img)) =>
        /\ md_res.kind # "panic"
        /\ md_res.kind = "Ok" =>
               /\ md_img.block_size > 0
               /\ md_res.payload_blocks_count >= 1
               /\ md_res.total_bat_entries_fixed_dynamic =
                      md_res.payload_blocks_count
                      + (md_res.payload_blocks_count - 1) \div md_res.chunk_ratio

====
